---- MODULE Spec2Model ----
(***************************************************************************)
(* UPGMA tree construction (src/upgma.py): class Node and class UPGMA.     *)
(*                                                                         *)
(* Node objects live in a heap indexed by identifiers 1, 2, ...; the       *)
(* fields left, right, nn and dist_to_NN are functions of the identifier.  *)
(* A field holds None, a taxon <<"taxon", v>> (any non-Node value) or a    *)
(* reference <<"node", id>>.  Leaves are allocated in input order (ids     *)
(* 1..n), OTUs in creation order (n+1, n+2, ...).  `returned` holds what   *)
(* the query made on the built tree returned (empty before the query; the  *)
(* queries change nothing, so one query per construction is explored).     *)
(* Two variables only record history: merge_dists, the cached distance of  *)
(* the pair chosen at each merge, and updated, the clusters on which the   *)
(* last step called update_distances; a third, dist_calls, the pairs       *)
(* <<self, node>> of clusters for which that step evaluated                *)
(* self.get_dist(node), that is, called the distance function on every     *)
(* taxon of self paired with every taxon of node.                          *)
(*                                                                         *)
(* The active set is a Python set of Node objects, hashed by address: its  *)
(* iteration order is not fixed by the program.  The order is stable while *)
(* the set is not modified and is chosen again, arbitrarily, when the set  *)
(* is built or modified.  Between two modifications the order is used by   *)
(* the update_distances calls that follow the modification and, last, by   *)
(* the scan of _get_closest_pair that opens the next loop iteration; the   *)
(* state keeps the outcome of that scan (`closest`) in place of the order, *)
(* which nothing else can observe.                                         *)
(*                                                                         *)
(* The module is Python 2 (print statements): `/` on two ints is floor     *)
(* division, on floats true division.  `numeric` is the type of number the *)
(* injected distance function returns.  A distance is a pair <<num, den>>  *)
(* (den > 0); float values are kept as exact fractions.                    *)
(***************************************************************************)
EXTENDS Integers, Sequences, FiniteSets, TLC

VARIABLES taxa, dist_function, numeric, pc, clusters, closest,
          left, right, nn, dist_to_NN, iters, i, tree,
          returned, merge_dists, updated, dist_calls, first_run

vars == <<taxa, dist_function, numeric, pc, clusters, closest,
          left, right, nn, dist_to_NN, iters, i, tree,
          returned, merge_dists, updated, dist_calls, first_run>>

(* ---- bound of the model: the largest number of taxa ---- *)
MaxN == 4

(* ---- the largest number of taxa under the fair specification ---- *)
MaxFairN == 3

(* ---- values ---- *)
None == <<"None">>

Taxon(v) == <<"taxon", v>>

NodeRef(id) == <<"node", id>>

isinstance_Node(x) == x # None /\ x[1] = "node"

Range(s) == {s[k] : k \in DOMAIN s}

(* the iteration orders of a set: its elements in every order *)
RECURSIVE Perms(_)
Perms(S) ==
    IF S = {} THEN {<<>>}
    ELSE UNION {{<<x>> \o p : p \in Perms(S \ {x})} : x \in S}

(* ---- inputs ---- *)
(* the taxa of the worked scenario (unevenly spaced integers) *)
Scenario == <<0, 2, 3, 9>>

Items == Range(Scenario)

(* set() on line 106 forgets the order of the input list (every iteration  *)
(* order of the set is possible, see UPGMA_init), so the inputs are taken  *)
(* up to reordering: the non-decreasing sequences, duplicates included     *)
NonDecreasing(s) == \A k \in 1..(Len(s) - 1) : s[k] <= s[k + 1]

TaxaInputs == UNION {{s \in [1..n -> Items] : NonDecreasing(s)} : n \in 0..MaxN}

(* the demonstration's distance, lines 185-187: absolute difference *)
simple_diff(o1, o2) == IF o1 >= o2 THEN o1 - o2 ELSE o2 - o1

(* two more non-negative distance functions to inject: a symmetric one     *)
(* without the triangle inequality, and one that is neither symmetric nor  *)
(* zero on equal arguments                                                 *)
squared_diff(o1, o2) == (o1 - o2) * (o1 - o2)

skewed(o1, o2) == (2 * o1 + o2) % 7

DistFunctions == {"simple_diff", "squared_diff", "skewed"}

ApplyDist(df, a, b) ==
    CASE df = "simple_diff" -> simple_diff(a, b)
      [] df = "squared_diff" -> squared_diff(a, b)
      [] df = "skewed" -> skewed(a, b)

(* ---- numbers ---- *)
Less(p, q) == p[1] * q[2] < q[1] * p[2]

SameNumber(p, q) == p[1] * q[2] = q[1] * p[2]

Divide(num, den, kind) ==
    IF kind = "int" THEN <<num \div den, 1>> ELSE <<num, den>>

(* ---- class Node ---- *)
RECURSIVE NodeIter(_, _, _)
RECURSIVE ChildIter(_, _, _)
ChildIter(L, R, child) ==
    IF child = None THEN <<>>
    ELSE IF isinstance_Node(child) THEN NodeIter(L, R, child[2])
    ELSE <<child[2]>>

(* a slip in line 47: the children visited right first *)
NodeIter_right_first(L, R, self) == ChildIter(L, R, R[self]) \o ChildIter(L, R, L[self])

NodeIter(L, R, self) == ChildIter(L, R, L[self]) \o ChildIter(L, R, R[self])

NodeLen(L, R, self) == Len(NodeIter(L, R, self))

RECURSIVE SumSeq(_)
SumSeq(s) == IF s = <<>> THEN 0 ELSE Head(s) + SumSeq(Tail(s))

(* the sum of dist_function over itertools.product(self, node2); the k-th  *)
(* pair takes self's taxa outermost                                        *)
PairSum(df, s, t) ==
    SumSeq([k \in 1..(Len(s) * Len(t)) |->
               ApplyDist(df, s[((k - 1) \div Len(t)) + 1], t[((k - 1) % Len(t)) + 1])])

get_dist(L, R, df, kind, self, node2) ==
    Divide(PairSum(df, NodeIter(L, R, self), NodeIter(L, R, node2)),
           NodeLen(L, R, self) + NodeLen(L, R, node2), kind)

(* self.get_dist(node) for every two clusters of S; get_dist reads only   *)
(* the children and the taxa, so one table serves every call of a step.    *)
(* The table holds the value for every pair; which entries the program     *)
(* asks for is decided by the scan of update_distances (ScanNN, `called`)  *)
DistTable(L, R, df, kind, S) ==
    [pair \in S \X S |-> get_dist(L, R, df, kind, pair[1], pair[2])]

(* a slip in lines 84-85: self is not skipped *)
RECURSIVE ScanNN_no_skip(_, _, _, _, _)
ScanNN_no_skip(dist, self, ord, k, acc) ==
    IF k > Len(ord) THEN acc
    ELSE LET dist_to_node == dist[<<self, ord[k]>>]
             no_NN == (acc.dist_to_NN = None)
             called == acc.called \cup {<<self, ord[k]>>}
         IN  IF no_NN \/ Less(dist_to_node, acc.dist_to_NN)
             THEN ScanNN_no_skip(dist, self, ord, k + 1,
                         [nn |-> NodeRef(ord[k]), dist_to_NN |-> dist_to_node,
                          called |-> called])
             ELSE ScanNN_no_skip(dist, self, ord, k + 1, [acc EXCEPT !.called = called])

(* the scan of update_distances over the iteration order ord, from         *)
(* position k, with the best candidate so far in acc = [nn, dist_to_NN,    *)
(* called]; dist[<<self, node>>] is self.get_dist(node), and called        *)
(* collects the pairs <<self, node>> for which line 86 asked for it        *)
RECURSIVE ScanNN(_, _, _, _, _)
ScanNN(dist, self, ord, k, acc) ==
    IF k > Len(ord) THEN acc
    ELSE IF ord[k] = self THEN ScanNN(dist, self, ord, k + 1, acc)
    ELSE LET dist_to_node == dist[<<self, ord[k]>>]
             no_NN == (acc.dist_to_NN = None)
             called == acc.called \cup {<<self, ord[k]>>}
         IN  IF no_NN \/ Less(dist_to_node, acc.dist_to_NN)
             THEN ScanNN(dist, self, ord, k + 1,
                         [nn |-> NodeRef(ord[k]), dist_to_NN |-> dist_to_node,
                          called |-> called])
             ELSE ScanNN(dist, self, ord, k + 1, [acc EXCEPT !.called = called])

update_distances_no_skip(dist, self, ord) ==
    ScanNN_no_skip(dist, self, ord, 1, [nn |-> None, dist_to_NN |-> None, called |-> {}])

update_distances(dist, self, ord) ==
    ScanNN(dist, self, ord, 1, [nn |-> None, dist_to_NN |-> None, called |-> {}])

(* ---- class UPGMA ---- *)
(* a slip in _create_OTU: the first cluster passed for both children *)
create_OTU_left_twice(c1, c2) == [left |-> NodeRef(c1), right |-> NodeRef(c1)]

(* a slip in _create_OTU: the children the other way round *)
create_OTU_swapped(c1, c2) == [left |-> NodeRef(c2), right |-> NodeRef(c1)]

create_OTU(c1, c2) == [left |-> NodeRef(c1), right |-> NodeRef(c2)]

(* the scan of _get_closest_pair over the iteration order ord, reading the *)
(* caches NN and D; acc = [min_dist, c1, c2, failed], failed when the      *)
(* assertion of line 179 fails, or when no cluster was scanned and line    *)
(* 181 has no c1 to return                                                 *)
RECURSIVE ScanClosest(_, _, _, _, _)
ScanClosest(NN, D, ord, k, acc) ==
    IF k > Len(ord) \/ acc.failed THEN acc
    ELSE LET node == ord[k] IN
         IF NN[node] = None
         THEN [acc EXCEPT !.failed = TRUE]
         ELSE IF acc.min_dist = None \/ Less(D[node], acc.min_dist)
         THEN ScanClosest(NN, D, ord, k + 1,
                  [min_dist |-> D[node], c1 |-> node,
                   c2 |-> NN[node][2], failed |-> FALSE])
         ELSE ScanClosest(NN, D, ord, k + 1, acc)

NoPair == [min_dist |-> None, c1 |-> 0, c2 |-> 0, failed |-> FALSE]

(* a slip in line 175: the comparison with min_dist lost, the first       *)
(* cluster of the iteration taken                                          *)
get_closest_pair_first(NN, D, ord) ==
    IF ord = <<>> THEN [NoPair EXCEPT !.failed = TRUE]
    ELSE IF NN[ord[1]] = None THEN [NoPair EXCEPT !.failed = TRUE]
    ELSE [min_dist |-> D[ord[1]], c1 |-> ord[1], c2 |-> NN[ord[1]][2],
          failed |-> FALSE]

get_closest_pair(NN, D, ord) ==
    IF ord = <<>> THEN [NoPair EXCEPT !.failed = TRUE]
    ELSE ScanClosest(NN, D, ord, 1, NoPair)

Init ==
    /\ taxa \in TaxaInputs
    /\ dist_function \in DistFunctions
    /\ numeric \in {"int", "float"}
    /\ pc = "start"
    /\ clusters = {}
    /\ closest = NoPair
    /\ left = <<>>
    /\ right = <<>>
    /\ nn = <<>>
    /\ dist_to_NN = <<>>
    /\ iters = 0
    /\ i = 0
    /\ tree = None
    /\ returned = <<>>
    /\ merge_dists = <<>>
    /\ updated = {}
    /\ dist_calls = {}
    /\ first_run = <<>>

(* UPGMA.__init__, lines 106-107: one leaf Node per taxon, in a set *)
UPGMA_init ==
    /\ pc = "start"
    /\ left' = [id \in 1..Len(taxa) |-> Taxon(taxa[id])]
    /\ right' = [id \in 1..Len(taxa) |-> None]
    /\ nn' = [id \in 1..Len(taxa) |-> None]
    /\ dist_to_NN' = [id \in 1..Len(taxa) |-> None]
    /\ clusters' = 1..Len(taxa)
    /\ pc' = "update"
    /\ UNCHANGED <<taxa, dist_function, numeric, closest, iters, i, tree,
                   returned, merge_dists, updated, dist_calls, first_run>>

(* the caches after the initial pass of lines 140-141 *)
UpdateAll(dist, ord) ==
    LET upd == [node \in Range(ord) |-> update_distances(dist, node, ord)]
    IN  [nn |-> [id \in DOMAIN nn |-> upd[id].nn],
         dist_to_NN |-> [id \in DOMAIN nn |-> upd[id].dist_to_NN],
         called |-> UNION {upd[id].called : id \in DOMAIN upd}]

(* a slip in line 143: range(len(clusters)), one iteration too many *)
InitialUpdate_one_more ==
    /\ pc = "update"
    /\ \E dist \in {DistTable(left, right, dist_function, numeric, clusters)} :
       \E ord \in Perms(clusters) :
       \E cache \in {UpdateAll(dist, ord)} :
              /\ nn' = cache.nn
              /\ dist_to_NN' = cache.dist_to_NN
              /\ dist_calls' = cache.called
              /\ closest' = get_closest_pair(cache.nn, cache.dist_to_NN, ord)
    /\ updated' = clusters
    /\ iters' = Cardinality(clusters)
    /\ i' = 0
    /\ pc' = "loop"
    /\ UNCHANGED <<taxa, dist_function, numeric, clusters, left, right,
                   tree, returned, merge_dists, first_run>>

(* build_tree, lines 140-143: the initial pass and the loop's range *)
InitialUpdate ==
    /\ pc = "update"
    /\ \E dist \in {DistTable(left, right, dist_function, numeric, clusters)} :
       \E ord \in Perms(clusters) :
       \E cache \in {UpdateAll(dist, ord)} :
              /\ nn' = cache.nn
              /\ dist_to_NN' = cache.dist_to_NN
              /\ dist_calls' = cache.called
              /\ closest' = get_closest_pair(cache.nn, cache.dist_to_NN, ord)
    /\ updated' = clusters
    /\ iters' = Cardinality(clusters) - 1
    /\ i' = 0
    /\ pc' = "loop"
    /\ UNCHANGED <<taxa, dist_function, numeric, clusters, left, right,
                   tree, returned, merge_dists, first_run>>

(* a slip in line 160: only the clusters whose nn is c1 are recomputed *)
UpdateAfterMerge_only_c1(dist, c1, c2, new_node, ord) ==
    LET stale(node) == node = new_node \/ nn[node] = NodeRef(c1)
        upd == [node \in {x \in Range(ord) : stale(x)} |->
                   update_distances(dist, node, ord)]
    IN  [updated |-> DOMAIN upd,
         called |-> UNION {upd[id].called : id \in DOMAIN upd},
         nn |-> [id \in 1..new_node |->
                    IF id \in DOMAIN upd THEN upd[id].nn
                    ELSE IF id = new_node THEN None ELSE nn[id]],
         dist_to_NN |-> [id \in 1..new_node |->
                    IF id \in DOMAIN upd THEN upd[id].dist_to_NN
                    ELSE IF id = new_node THEN None ELSE dist_to_NN[id]]]

(* a slip in lines 159-161: the clusters whose nn was joined are left alone *)
UpdateAfterMerge_only_new(dist, c1, c2, new_node, ord) ==
    LET upd == [node \in {new_node} |-> update_distances(dist, node, ord)]
    IN  [updated |-> DOMAIN upd,
         called |-> UNION {upd[id].called : id \in DOMAIN upd},
         nn |-> [id \in 1..new_node |->
                    IF id \in DOMAIN upd THEN upd[id].nn ELSE nn[id]],
         dist_to_NN |-> [id \in 1..new_node |->
                    IF id \in DOMAIN upd THEN upd[id].dist_to_NN ELSE dist_to_NN[id]]]

(* a slip in line 160: every cluster of the set is recomputed *)
UpdateAfterMerge_all(dist, c1, c2, new_node, ord) ==
    LET upd == [node \in Range(ord) |-> update_distances(dist, node, ord)]
    IN  [updated |-> DOMAIN upd,
         called |-> UNION {upd[id].called : id \in DOMAIN upd},
         nn |-> [id \in 1..new_node |->
                    IF id \in DOMAIN upd THEN upd[id].nn
                    ELSE IF id = new_node THEN None ELSE nn[id]],
         dist_to_NN |-> [id \in 1..new_node |->
                    IF id \in DOMAIN upd THEN upd[id].dist_to_NN
                    ELSE IF id = new_node THEN None ELSE dist_to_NN[id]]]

(* a slip in line 155: update_distances is not called on the new cluster *)
UpdateAfterMerge_skip_new(dist, c1, c2, new_node, ord) ==
    LET stale(node) == node # new_node /\ (nn[node] = NodeRef(c1) \/ nn[node] = NodeRef(c2))
        upd == [node \in {x \in Range(ord) : stale(x)} |->
                   update_distances(dist, node, ord)]
    IN  [updated |-> DOMAIN upd,
         called |-> UNION {upd[id].called : id \in DOMAIN upd},
         nn |-> [id \in 1..new_node |->
                    IF id \in DOMAIN upd THEN upd[id].nn
                    ELSE IF id = new_node THEN None ELSE nn[id]],
         dist_to_NN |-> [id \in 1..new_node |->
                    IF id \in DOMAIN upd THEN upd[id].dist_to_NN
                    ELSE IF id = new_node THEN None ELSE dist_to_NN[id]]]

(* the caches after lines 155-161 of a merge of c1 and c2 into new_node:   *)
(* new_node is updated, then every cluster whose nn is c1 or c2            *)
UpdateAfterMerge(dist, c1, c2, new_node, ord) ==
    LET stale(node) == node = new_node \/ nn[node] = NodeRef(c1) \/ nn[node] = NodeRef(c2)
        upd == [node \in {x \in Range(ord) : stale(x)} |->
                   update_distances(dist, node, ord)]
    IN  [updated |-> DOMAIN upd,
         called |-> UNION {upd[id].called : id \in DOMAIN upd},
         nn |-> [id \in 1..new_node |->
                    IF id \in DOMAIN upd THEN upd[id].nn
                    ELSE IF id = new_node THEN None ELSE nn[id]],
         dist_to_NN |-> [id \in 1..new_node |->
                    IF id \in DOMAIN upd THEN upd[id].dist_to_NN
                    ELSE IF id = new_node THEN None ELSE dist_to_NN[id]]]

(* a slip in lines 149-150: the first remove forgotten *)
JoinClusters_keep_c1(S, c1, c2, new_node) == (S \ {c2}) \cup {new_node}

(* a slip in lines 149-150: the second remove forgotten *)
JoinClusters_keep_c2(S, c1, c2, new_node) == (S \ {c1}) \cup {new_node}

(* lines 149-152: the two joined clusters leave the set, the OTU enters *)
JoinClusters(S, c1, c2, new_node) == ((S \ {c1}) \ {c2}) \cup {new_node}

(* build_tree, lines 143-161: one iteration of the merge loop *)
MergeStep ==
    /\ pc = "loop"
    /\ i < iters
    /\ LET c1 == closest.c1
           c2 == closest.c2
           new_node == Len(left) + 1
           otu == create_OTU(c1, c2)
       IN  IF closest.failed
           THEN (* line 146 raises *)
                /\ pc' = "failed"
                /\ UNCHANGED <<clusters, closest, left, right, nn, dist_to_NN, i,
                               merge_dists, updated, dist_calls>>
           ELSE IF c2 \notin (clusters \ {c1})
           THEN (* line 150: KeyError *)
                /\ pc' = "failed"
                /\ clusters' = clusters \ {c1}
                /\ UNCHANGED <<closest, left, right, nn, dist_to_NN, i, merge_dists,
                               updated, dist_calls>>
           ELSE /\ clusters' = JoinClusters(clusters, c1, c2, new_node)
                /\ left' = Append(left, otu.left)
                /\ right' = Append(right, otu.right)
                /\ \E dist \in {DistTable(left', right', dist_function, numeric, clusters')} :
                   \E ord \in Perms(clusters') :
                   \E cache \in {UpdateAfterMerge(dist, c1, c2, new_node, ord)} :
                          /\ nn' = cache.nn
                          /\ dist_to_NN' = cache.dist_to_NN
                          /\ updated' = cache.updated
                          /\ dist_calls' = cache.called
                          /\ closest' = get_closest_pair(cache.nn, cache.dist_to_NN, ord)
                /\ merge_dists' = Append(merge_dists, closest.min_dist)
                /\ i' = i + 1
                /\ pc' = "loop"
    /\ UNCHANGED <<taxa, dist_function, numeric, iters, tree, returned,
                   first_run>>

(* a slip in lines 163-165: an empty set taken for a finished build *)
Finish_empty_is_done ==
    /\ pc = "loop"
    /\ i >= iters
    /\ IF Cardinality(clusters) <= 1
       THEN /\ tree' = IF clusters = {} THEN None
                       ELSE NodeRef(CHOOSE c \in clusters : TRUE)
            /\ clusters' = {}
            /\ pc' = "done"
       ELSE /\ pc' = "failed"
            /\ UNCHANGED <<tree, clusters>>
    /\ UNCHANGED <<taxa, dist_function, numeric, closest, left, right, nn,
                   dist_to_NN, iters, i, returned, merge_dists, updated, dist_calls,
                   first_run>>

(* build_tree, lines 163-165: the final assertion and the pop of the root *)
Finish ==
    /\ pc = "loop"
    /\ i >= iters
    /\ IF Cardinality(clusters) = 1
       THEN /\ tree' = NodeRef(CHOOSE c \in clusters : TRUE)
            /\ clusters' = {}
            /\ pc' = "done"
       ELSE /\ pc' = "failed"
            /\ UNCHANGED <<tree, clusters>>
    /\ UNCHANGED <<taxa, dist_function, numeric, closest, left, right, nn,
                   dist_to_NN, iters, i, returned, merge_dists, updated, dist_calls,
                   first_run>>

(* a slip in line 128: the comparison turned round *)
get_largest_branch_smaller(L, R, t) ==
    IF R[t] = None THEN L[t]
    ELSE IF L[t] = None THEN R[t]
    ELSE IF NodeLen(L, R, R[t][2]) < NodeLen(L, R, L[t][2]) THEN R[t]
    ELSE L[t]

(* a slip in line 128: >= for > *)
get_largest_branch_geq(L, R, t) ==
    IF R[t] = None THEN L[t]
    ELSE IF L[t] = None THEN R[t]
    ELSE IF NodeLen(L, R, R[t][2]) >= NodeLen(L, R, L[t][2]) THEN R[t]
    ELSE L[t]

(* UPGMA.get_largest_branch, lines 118-132 *)
get_largest_branch(L, R, t) ==
    IF R[t] = None THEN L[t]
    ELSE IF L[t] = None THEN R[t]
    ELSE IF NodeLen(L, R, R[t][2]) > NodeLen(L, R, L[t][2]) THEN R[t]
    ELSE L[t]

GetLargestBranch ==
    /\ pc = "done"
    /\ returned = <<>>
    /\ returned' = <<[call |-> "get_largest_branch",
                      value |-> get_largest_branch(left, right, tree[2])]>>
    /\ UNCHANGED <<taxa, dist_function, numeric, pc, clusters, closest, left,
                   right, nn, dist_to_NN, iters, i, tree, merge_dists,
                   updated, dist_calls, first_run>>

(* UPGMA.get_tree, lines 110-116; the object exists once __init__ returned *)
GetTree ==
    /\ pc = "done"
    /\ returned = <<>>
    /\ returned' = <<[call |-> "get_tree", value |-> tree]>>
    /\ UNCHANGED <<taxa, dist_function, numeric, pc, clusters, closest, left,
                   right, nn, dist_to_NN, iters, i, tree, merge_dists,
                   updated, dist_calls, first_run>>

(* Node.__str__, line 37: "-".join(str(node) for node in self.__iter__()) *)
RECURSIVE Join(_, _)
Join(sep, strs) ==
    IF strs = <<>> THEN ""
    ELSE IF Len(strs) = 1 THEN strs[1]
    ELSE strs[1] \o sep \o Join(sep, Tail(strs))

NodeStr(L, R, self) ==
    Join("-", [k \in 1..NodeLen(L, R, self) |-> ToString(NodeIter(L, R, self)[k])])

Str ==
    /\ pc = "done"
    /\ returned = <<>>
    /\ returned' = <<[call |-> "str", value |-> NodeStr(left, right, tree[2])]>>
    /\ UNCHANGED <<taxa, dist_function, numeric, pc, clusters, closest, left,
                   right, nn, dist_to_NN, iters, i, tree, merge_dists,
                   updated, dist_calls, first_run>>

(* the left/right structure of a tree, with the taxa at its leaves *)
RECURSIVE Render(_, _, _)
Render(L, R, x) ==
    IF x = None THEN "None"
    ELSE IF isinstance_Node(x)
    THEN "(" \o Render(L, R, L[x[2]]) \o "," \o Render(L, R, R[x[2]]) \o ")"
    ELSE ToString(x[2])

(* a second construction on the same taxa with the same distance function, *)
(* after the first has returned; first_run keeps what the first produced   *)
Rerun ==
    /\ pc = "done"
    /\ first_run = <<>>
    /\ first_run' = <<[tree |-> Render(left, right, tree),
                      shown |-> NodeStr(left, right, tree[2]),
                      merge_dists |-> merge_dists]>>
    /\ pc' = "start"
    /\ clusters' = {}
    /\ closest' = NoPair
    /\ left' = <<>>
    /\ right' = <<>>
    /\ nn' = <<>>
    /\ dist_to_NN' = <<>>
    /\ iters' = 0
    /\ i' = 0
    /\ tree' = None
    /\ returned' = <<>>
    /\ merge_dists' = <<>>
    /\ updated' = {}
    /\ dist_calls' = {}
    /\ UNCHANGED <<taxa, dist_function, numeric>>

Next ==
    \/ UPGMA_init
    \/ InitialUpdate
    \/ MergeStep
    \/ Finish
    \/ GetTree
    \/ GetLargestBranch
    \/ Str

Spec == Init /\ [][Next]_vars

(* UPGMA.__init__ calls build_tree and build_tree runs its loops to the    *)
(* end, one statement after the other: a step of the construction that is  *)
(* enabled is taken                                                        *)
Build == UPGMA_init \/ InitialUpdate \/ MergeStep \/ Finish

InitFair == Init /\ Len(taxa) <= MaxFairN

SpecFair == InitFair /\ [][Next]_vars /\ WF_vars(Build)

NextTwoRuns == Next \/ Rerun

SpecTwoRuns == Init /\ [][NextTwoRuns]_vars

(***************************************************************************)
(* Properties                                                              *)
(***************************************************************************)
N == Len(taxa)

(* the Node objects of the tree under node id *)
RECURSIVE Under(_)
Under(id) ==
    {id} \cup (IF isinstance_Node(left[id]) THEN Under(left[id][2]) ELSE {})
         \cup (IF isinstance_Node(right[id]) THEN Under(right[id][2]) ELSE {})

IsLeaf(id) == ~isinstance_Node(left[id]) /\ left[id] # None /\ right[id] = None

IsOTU(id) == isinstance_Node(left[id]) /\ isinstance_Node(right[id])

Count(s, v) == Cardinality({k \in DOMAIN s : s[k] = v})

IsPermutation(s, t) ==
    Len(s) = Len(t) /\ \A v \in Range(s) \cup Range(t) : Count(s, v) = Count(t, v)

Dist(x, y) == get_dist(left, right, dist_function, numeric, x, y)

Asked(call) == Len(returned) = 1 /\ returned[1].call = call

(* C1: the built tree has exactly n leaves and n-1 internal clusters, the  *)
(* leaf sequence of the root is a permutation of the input multiset and    *)
(* the leaf count of the root is n.                                        *)
C1_TreeHoldsTheTaxa ==
    pc = "done" =>
        LET root == tree[2]
            T == Under(root)
        IN  /\ N >= 1
            /\ Cardinality({id \in T : IsLeaf(id)}) = N
            /\ Cardinality({id \in T : IsOTU(id)}) = N - 1
            /\ Cardinality(T) = 2 * N - 1
            /\ IsPermutation(NodeIter(left, right, root), taxa)
            /\ NodeLen(left, right, root) = N

C1_Witness ==
    pc = "done" /\ N >= 3 /\ taxa[1] = taxa[2] /\ taxa[2] # taxa[3]

(* C2: while build_tree runs the active set holds (number of taxa) minus   *)
(* (merges done) clusters; after n-1 merges exactly one is left and the    *)
(* final assertion does not fail for n >= 1 (nothing fails for n >= 1).    *)
C2_ActiveSetSize ==
    /\ pc \in {"update", "loop"} => Cardinality(clusters) = N - i
    /\ (pc = "loop" /\ i >= iters /\ N >= 1) => (i = N - 1 /\ Cardinality(clusters) = 1)
    /\ pc = "done" => i = N - 1
    /\ pc = "failed" => N = 0

C2_Witness ==
    pc = "loop" /\ N = MaxN /\ i = 2 /\ Cardinality(clusters) = MaxN - 2

(* C3: the pair the closest-pair scan returns at the start of a merge      *)
(* iteration is two distinct clusters of the active set, and no two        *)
(* distinct clusters x, y of the active set have x.get_dist(y) smaller     *)
(* than c1.get_dist(c2), also when caches were left as they were by        *)
(* earlier merges.                                                         *)
C3_ClosestPairIsGlobalMinimum ==
    (pc = "loop" /\ i < iters) =>
        /\ ~closest.failed
        /\ closest.c1 \in clusters
        /\ closest.c2 \in clusters \ {closest.c1}
        /\ \A chosen \in {Dist(closest.c1, closest.c2)} :
              \A x \in clusters : \A y \in clusters \ {x} :
                  ~Less(Dist(x, y), chosen)

(* a merge iteration is about to start and some cluster of the active set  *)
(* kept its cache through the previous merge                               *)
C3_Witness ==
    /\ pc = "loop" /\ i >= 1 /\ i < iters
    /\ \E x \in clusters : x \notin updated

(* C4: construction with no taxa fails: no merge, no tree, never done.     *)
C4_EmptyInputFails ==
    N = 0 =>
        /\ pc \in {"start", "update", "loop", "failed"}
        /\ tree = None
        /\ i = 0
        /\ merge_dists = <<>>
        /\ (pc = "loop" => (i >= iters /\ Cardinality(clusters) # 1))

C4_Witness == N = 0 /\ pc = "failed"

(* C5: construction with one taxon x succeeds with no merge; the root is   *)
(* the leaf holding x, of leaf count 1, with its nearest-neighbour cache   *)
(* unset.                                                                  *)
C5_SingleTaxon ==
    N = 1 =>
        /\ pc # "failed"
        /\ i = 0
        /\ merge_dists = <<>>
        /\ pc = "done" =>
              /\ tree = NodeRef(1)
              /\ left[1] = Taxon(taxa[1])
              /\ right[1] = None
              /\ NodeIter(left, right, 1) = <<taxa[1]>>
              /\ NodeLen(left, right, 1) = 1
              /\ nn[1] = None
              /\ dist_to_NN[1] = None

C5_Witness == N = 1 /\ pc = "done" /\ Len(left) = 1

(* C6: for two taxa the root is an OTU over the two leaves, and the        *)
(* distance the initial pass records for a leaf equals the distance        *)
(* function applied to its taxon and its nearest neighbour's taxon.        *)
C6_LeafDistanceIsItemDistance ==
    /\ (pc = "loop" /\ i = 0 /\ N >= 2) =>
          \A x \in clusters :
             /\ nn[x] # None
             /\ SameNumber(dist_to_NN[x],
                           <<ApplyDist(dist_function, taxa[x], taxa[nn[x][2]]), 1>>)
    /\ (pc = "done" /\ N = 2) =>
          {left[tree[2]], right[tree[2]]} = {NodeRef(1), NodeRef(2)}

(* C7: X.get_dist(Y) is the sum of the distance function over the pairs of *)
(* taxa of X and Y divided by len(X) + len(Y), as an exact quotient.       *)
C7_ExactQuotient ==
    pc \in {"update", "loop"} =>
        \A x \in clusters : \A y \in clusters \ {x} :
            SameNumber(Dist(x, y),
                       <<PairSum(dist_function, NodeIter(left, right, x),
                                 NodeIter(left, right, y)),
                         NodeLen(left, right, x) + NodeLen(left, right, y)>>)

(* C8: for the taxa 0, 2, 3, 9 (leaves 1..4) under absolute difference,    *)
(* whatever the iteration order: the first OTU joins leaves 2 and 3, the   *)
(* second joins it to leaf 0, the third joins that to leaf 9 and is the    *)
(* root, and get_largest_branch returns the second OTU, of 3 taxa.         *)
C8_Scenario ==
    (taxa = Scenario /\ dist_function = "simple_diff") =>
        /\ Len(left) >= 5 => {left[5], right[5]} = {NodeRef(2), NodeRef(3)}
        /\ Len(left) >= 6 => {left[6], right[6]} = {NodeRef(5), NodeRef(1)}
        /\ Len(left) >= 7 => {left[7], right[7]} = {NodeRef(6), NodeRef(4)}
        /\ pc = "done" => (tree = NodeRef(7) /\ Len(left) = 7)
        /\ Asked("get_largest_branch") =>
              /\ returned[1].value = NodeRef(6)
              /\ IsPermutation(NodeIter(left, right, 6), <<0, 2, 3>>)

C8_Witness ==
    /\ taxa = Scenario /\ dist_function = "simple_diff"
    /\ pc = "done" /\ Asked("get_largest_branch")

(* C9: on a tree of two or more taxa get_largest_branch returns a child of *)
(* the root whose leaf count is at least its sibling's, the left child     *)
(* when the counts are equal.                                              *)
C9_LargestBranch ==
    (pc = "done" /\ N >= 2 /\ Asked("get_largest_branch")) =>
        LET l == left[tree[2]]
            r == right[tree[2]]
            b == returned[1].value
            len_l == NodeLen(left, right, l[2])
            len_r == NodeLen(left, right, r[2])
        IN  /\ isinstance_Node(l) /\ isinstance_Node(r)
            /\ b \in {l, r}
            /\ b = l => len_l >= len_r
            /\ b = r => len_r > len_l

(* the two children of the root have equal leaf counts, more than one *)
C9_Witness ==
    /\ pc = "done" /\ Asked("get_largest_branch")
    /\ returned[1].value = left[tree[2]]
    /\ isinstance_Node(right[tree[2]])
    /\ NodeLen(left, right, left[tree[2]][2]) = 2
    /\ NodeLen(left, right, right[tree[2]][2]) = 2

(* C10: a second construction on the same taxa with the same distance      *)
(* function builds the same tree (same children at every OTU, same display *)
(* string) through the same merge distances as the first.                  *)
C10_Deterministic ==
    (pc = "done" /\ Len(first_run) = 1) =>
        /\ Render(left, right, tree) = first_run[1].tree
        /\ NodeStr(left, right, tree[2]) = first_run[1].shown
        /\ merge_dists = first_run[1].merge_dists

(* the leaves (Node ids) below id in left-then-right depth-first order *)
RECURSIVE LeafIds(_)
LeafIds(id) ==
    IF isinstance_Node(left[id])
    THEN LeafIds(left[id][2]) \o
         (IF isinstance_Node(right[id]) THEN LeafIds(right[id][2]) ELSE <<>>)
    ELSE <<id>>

(* the taxa of the leaves below id, depth first, written with '-' between *)
RECURSIVE Shown(_)
Shown(id) ==
    IF isinstance_Node(left[id])
    THEN Shown(left[id][2]) \o "-" \o Shown(right[id][2])
    ELSE ToString(left[id][2])

(* C11: iterating a cluster yields the taxa of its leaves in left-then-    *)
(* right depth-first order and no internal cluster: a leaf yields its one  *)
(* taxon, an OTU what its left child yields followed by what its right     *)
(* child yields; str() of the tree is those taxa joined with '-'.          *)
C11_LeafSequence ==
    /\ \A id \in DOMAIN left :
          \A items \in {NodeIter(left, right, id)} :
          \A ids \in {LeafIds(id)} :
             /\ items = [k \in DOMAIN ids |-> taxa[ids[k]]]
             /\ \A k \in DOMAIN items : items[k] \in Items
             /\ IsLeaf(id) => items = <<taxa[id]>>
             /\ IsOTU(id) => items = NodeIter(left, right, left[id][2]) \o
                                     NodeIter(left, right, right[id][2])
    /\ Asked("str") => returned[1].value = Shown(tree[2])

(* str() was called on a tree whose root has an OTU on each side, over     *)
(* taxa that are not all equal                                             *)
C11_Witness ==
    /\ pc = "done" /\ Asked("str") /\ N >= 4
    /\ IsOTU(left[tree[2]][2]) /\ IsOTU(right[tree[2]][2])
    /\ taxa[1] # taxa[N]

(* C12: when a merge iteration is about to select the closest pair, every  *)
(* cluster of the active set has a nearest neighbour that is set, is not   *)
(* the cluster itself and is in the active set; the assertion of           *)
(* _get_closest_pair holds, both chosen clusters can be removed, and a     *)
(* construction over one or more taxa never fails.                         *)
C12_NearestNeighbourIsActive ==
    /\ (pc = "loop" /\ i < iters) =>
          /\ Cardinality(clusters) >= 2
          /\ \A x \in clusters :
                /\ nn[x] # None
                /\ nn[x] # NodeRef(x)
                /\ nn[x][2] \in clusters
          /\ ~closest.failed
          /\ closest.c1 \in clusters
          /\ closest.c2 \in clusters \ {closest.c1}
    /\ pc = "failed" => N = 0

(* a later merge iteration is about to start; some cluster kept its cache  *)
(* through the last merge and its neighbour is one that was recomputed     *)
C12_Witness ==
    /\ pc = "loop" /\ i >= 1 /\ i < iters
    /\ \E x \in clusters : x \notin updated /\ nn[x][2] \in updated

(* a step of the merge loop that joined two clusters *)
Merged == pc = "loop" /\ pc' = "loop" /\ i' = i + 1

(* C13: in a merge of c1 and c2, a cluster that stays in the active set    *)
(* and whose nearest neighbour was neither c1 nor c2 keeps its nearest     *)
(* neighbour and its cached distance; update_distances is called on the    *)
(* new cluster and on the clusters whose nearest neighbour was c1 or c2,   *)
(* and on no other.                                                        *)
C13_OtherCachesKept ==
    [][Merged =>
          LET c1 == NodeRef(closest.c1)
              c2 == NodeRef(closest.c2)
              new_node == Len(left')
          IN  /\ \A x \in clusters \cap clusters' :
                    (nn[x] # c1 /\ nn[x] # c2) =>
                        /\ nn'[x] = nn[x]
                        /\ dist_to_NN'[x] = dist_to_NN[x]
                        /\ x \notin updated'
              /\ updated' = {new_node} \cup
                             {x \in clusters \cap clusters' : nn[x] = c1 \/ nn[x] = c2}]_vars

(* after the first merge of four taxa, one of the two other clusters was   *)
(* recomputed and one kept its cache                                       *)
C13_Witness ==
    /\ pc = "loop" /\ i = 1 /\ N = MaxN
    /\ Cardinality(updated) = 2
    /\ Cardinality(clusters \ updated) = 1

(* C14: a merge step takes two distinct clusters out of the active set and *)
(* puts one new OTU in; the OTU's left child is a cluster whose cached     *)
(* distance is the smallest of the set (the one the scan found), its right *)
(* child that cluster's cached nearest neighbour; no other cluster enters  *)
(* or leaves, and no existing Node changes children.                       *)
C14_MergeStep ==
    [][(pc = "loop" /\ (clusters' # clusters \/ left' # left \/ right' # right)
                   /\ pc' # "done") =>
          LET c1 == closest.c1
              c2 == closest.c2
              new_node == Len(left) + 1
          IN  /\ Merged
              /\ c1 \in clusters /\ c2 \in clusters /\ c1 # c2
              /\ new_node \notin clusters
              /\ clusters \ clusters' = {c1, c2}
              /\ clusters' \ clusters = {new_node}
              /\ \A x \in clusters : ~Less(dist_to_NN[x], dist_to_NN[c1])
              /\ Len(left') = new_node /\ Len(right') = new_node
              /\ left'[new_node] = NodeRef(c1)
              /\ right'[new_node] = nn[c1]
              /\ nn[c1] = NodeRef(c2)
              /\ \A id \in DOMAIN left :
                    left'[id] = left[id] /\ right'[id] = right[id]]_vars

(* the latest OTU joined a leaf, on the left, to an OTU, on the right *)
C14_Witness ==
    /\ pc = "loop" /\ N >= 3 /\ Len(left) = N + 2
    /\ IsLeaf(left[N + 2][2])
    /\ IsOTU(right[N + 2][2])

(* C15: a construction over one or more taxa reaches the end of the merge  *)
(* loop with one cluster in the active set after exactly n-1 merges and    *)
(* then holds the tree; once it holds the tree no merge happens and        *)
(* nothing of the tree changes; the tree is set, and a query answered,     *)
(* only then.                                                              *)
C15_ReachesDone ==
    /\ (pc = "start" /\ N >= 1) ~> (pc = "loop" /\ i >= iters /\ i = N - 1
                                       /\ Cardinality(clusters) = 1)
    /\ [](N >= 1 => <>(pc = "done"))
    /\ [](pc = "done" => (i = N - 1 /\ Len(merge_dists) = N - 1
                          /\ Len(left) = 2 * N - 1 /\ tree # None))
    /\ [][pc = "done" => (pc' = "done" /\ UNCHANGED <<clusters, left, right, i,
                                                      merge_dists, tree>>)]_vars
    /\ []((tree # None \/ returned # <<>>) => pc = "done")

(* get_tree answered with the root of a tree built by n-1 merges *)
C15_Witness ==
    /\ pc = "done" /\ N = MaxFairN /\ i = MaxFairN - 1
    /\ Asked("get_tree") /\ returned[1].value = NodeRef(2 * MaxFairN - 1)

(* the Nodes that have x as a child *)
Parents(x) == {p \in DOMAIN left : left[p] = NodeRef(x) \/ right[p] = NodeRef(x)}

(* C16: while the tree is built the clusters of the active set partition   *)
(* the input: every leaf made from the input is under exactly one cluster  *)
(* of the active set, every Node is the child of at most one Node (and not *)
(* both children of it), and no Node is under itself.                      *)
C16_Partition ==
    pc \in {"update", "loop"} =>
        /\ \A leaf \in 1..N :
              Cardinality({c \in clusters : leaf \in Under(c)}) = 1
        /\ \A x \in DOMAIN left :
              /\ Cardinality(Parents(x)) <= 1
              /\ x \in clusters => Parents(x) = {}
              /\ left[x] # right[x]
              /\ isinstance_Node(left[x]) => x \notin Under(left[x][2])
              /\ isinstance_Node(right[x]) => x \notin Under(right[x][2])
        /\ UNION {Under(c) : c \in clusters} = DOMAIN left

(* two merges done on four taxa, each joining two leaves *)
C16_Witness ==
    /\ pc = "loop" /\ N = MaxN /\ i = 2
    /\ \A c \in clusters : IsOTU(c)

(* C17: when a merge iteration starts, the cached distance of every        *)
(* cluster of the active set is the smallest get_dist from it to another   *)
(* cluster of the set (no other cluster is nearer, and one is at that      *)
(* distance), also for the clusters whose cache earlier merges left alone. *)
C17_CachedDistanceIsMinimum ==
    (pc = "loop" /\ i < iters) =>
        \A x \in clusters :
            /\ dist_to_NN[x] # None
            /\ \A y \in clusters \ {x} : ~Less(Dist(x, y), dist_to_NN[x])
            /\ \E y \in clusters \ {x} : SameNumber(Dist(x, y), dist_to_NN[x])

(* a cluster kept its cache through the last merge, and the cluster that   *)
(* merge created is farther from it than its cached neighbour              *)
C17_Witness ==
    /\ pc = "loop" /\ i >= 1 /\ i < iters
    /\ \E x \in clusters \ updated :
          /\ nn[x] # NodeRef(Len(left))
          /\ Less(dist_to_NN[x], Dist(x, Len(left)))

(* C18: the cached distances at which successive merges happen never       *)
(* decrease: each merge's distance is at least that of the merge before.   *)
C18_MergeDistancesNonDecreasing ==
    \A k \in 1..(Len(merge_dists) - 1) :
        ~Less(merge_dists[k + 1], merge_dists[k])

(* three merges, the second at a larger distance than the first and the    *)
(* third at a larger one than the second                                   *)
C18_Witness ==
    /\ Len(merge_dists) = 3
    /\ Less(merge_dists[1], merge_dists[2])
    /\ Less(merge_dists[2], merge_dists[3])

(* C19: the distance function is called only through self.get_dist(node)   *)
(* for two different clusters self and node of the active set, so only on  *)
(* the taxa of two different input positions, never on the taxon of one    *)
(* position paired with itself.                                            *)
C19_DistanceCallsAcrossClusters ==
    pc = "loop" =>
        \A call \in dist_calls :
            /\ call[1] \in clusters
            /\ call[2] \in clusters
            /\ call[1] # call[2]
            /\ \A a \in Range(LeafIds(call[1])) : \A b \in Range(LeafIds(call[2])) :
                  a # b /\ a \in 1..N /\ b \in 1..N

(* after a merge the new cluster was measured against a leaf that holds    *)
(* the same value as one of its own leaves, at another input position      *)
C19_Witness ==
    /\ pc = "loop" /\ i >= 1
    /\ \E call \in dist_calls :
          /\ call[1] = Len(left)
          /\ \E a \in Range(LeafIds(call[1])) : \E b \in Range(LeafIds(call[2])) :
                taxa[a] = taxa[b]
====
